---- MODULE Spec2Model ----
(***************************************************************************)
(* Model of geotag.py: the trackpoint matcher findNearestTrackpoint with   *)
(* interpolate_n (src/geotag.py) and the numeric output helpers decToDMS,  *)
(* dmsToDec and formatAsRational (src/gpsfuncs.py).                        *)
(*                                                                         *)
(* Times are whole seconds.  Elevations are integers; interpolate_n is     *)
(* computed in exact rational arithmetic (a rational is <<num, den>> with  *)
(* den > 0).  Angles are whole degrees on a 10-degree trigonometric grid,  *)
(* with sines carried as fixed-point numbers of scale Scale.               *)
(***************************************************************************)
EXTENDS Integers, Sequences, FiniteSets, TLC

VARIABLES
    pc,             \* position of the running program
    list,           \* findNearestTrackpoint: the trackpoints, sorted by time
    time,           \* findNearestTrackpoint: the query time
    interpolate,    \* options.interpolate
    optThreshold,   \* options.threshold as parsed from the command line
    threshold,      \* the threshold handed to findNearestTrackpoint
    idx,            \* position of the scan loop in list
    closestPoints,  \* <<before, after>>: indices into list, None when unset
    closestTimes,   \* <<before, after>>: the smallest distance seen so far
    ret,            \* what findNearestTrackpoint returned
    number,         \* formatAsRational: the argument, in units of 10^-7
    formatted,      \* formatAsRational: the returned string
    degrees,        \* decToDMS: the argument, a float
    dms,            \* decToDMS: the returned triple
    dec             \* dmsToDec: the returned float

vars == <<pc, list, time, interpolate, optThreshold, threshold, idx,
          closestPoints, closestTimes, ret, number, formatted, degrees, dms, dec>>

matchVars == <<list, time, interpolate, optThreshold, threshold, idx,
               closestPoints, closestTimes, ret>>
fmtVars == <<number, formatted>>
dmsVars == <<degrees, dms, dec>>

----------------------------------------------------------------------------
(* Bounds *)

MaxLen == 2
MaxTime == 3
MaxThreshold == 2

(* formatAsRational is applied to integer parts 0..MaxInt *)
MaxInt == 12

(* decToDMS is applied to floats with MantBits significant bits, from      *)
(* 2^-(FracExp+1) up to 2^MaxExp (Python's float has 53 bits)              *)
MantBits == 6
FracExp == 3
MaxExp == 6

(* The latitude/longitude/elevation triples the trackpoints are drawn from. *)
Samples ==
    { [lat |-> 0,   lon |-> 0,   ele |-> 0],
      [lat |-> 0,   lon |-> 10,  ele |-> 100],
      [lat |-> 0,   lon |-> 130, ele |-> 70],
      [lat |-> 60,  lon |-> 20,  ele |-> -30] }

----------------------------------------------------------------------------
(* Arithmetic helpers *)

Abs(n) == IF n < 0 THEN -n ELSE n

(* n/d rounded to the nearest integer, d > 0 *)
RoundDiv(n, d) == (2 * n + d) \div (2 * d)

RECURSIVE Pow(_, _)
Pow(b, e) == IF e = 0 THEN 1 ELSE b * Pow(b, e - 1)

(* floor of the square root, by bisection on [lo, hi] *)
RECURSIVE IsqrtIn(_, _, _)
IsqrtIn(n, lo, hi) ==
    IF lo = hi THEN lo
    ELSE LET mid == (lo + hi + 1) \div 2
         IN IF mid * mid <= n THEN IsqrtIn(n, mid, hi) ELSE IsqrtIn(n, lo, mid - 1)

Sqrt(n) == IsqrtIn(n, 0, 46340)

RECURSIVE GCD(_, _)
GCD(a, b) == IF b = 0 THEN a ELSE GCD(b, a % b)

LCM(a, b) == (a \div GCD(a, b)) * b

(* rationals <<numerator, denominator>>, denominator > 0 *)
Rat(n, d) == <<n, d>>
RAdd(a, b) == LET l == LCM(a[2], b[2])
              IN <<a[1] * (l \div a[2]) + b[1] * (l \div b[2]), l>>
RMul(a, b) == <<a[1] * b[1], a[2] * b[2]>>
RDiv(a, b) == IF b[1] < 0 THEN <<-(a[1] * b[2]), -(a[2] * b[1])>>
                          ELSE <<a[1] * b[2], a[2] * b[1]>>
REq(a, b) == LET l == LCM(a[2], b[2])
             IN a[1] * (l \div a[2]) = b[1] * (l \div b[2])
RLe(a, b) == LET l == LCM(a[2], b[2])
             IN a[1] * (l \div a[2]) <= b[1] * (l \div b[2])

----------------------------------------------------------------------------
(* Trigonometry on the 10-degree grid (math.sin, math.cos, math.atan2) *)

(* round(Scale * sin(a)) for a = 0, 10, ..., 90 degrees *)
SinTable == <<0, 174, 342, 500, 643, 766, 866, 940, 985, 1000>>

(* the fixed-point scale of the trigonometric values: sin(90 degrees) *)
Scale == SinTable[10]

Sin(a) ==
    LET m == a % 360
    IN IF m <= 90 THEN SinTable[(m \div 10) + 1]
       ELSE IF m <= 180 THEN SinTable[((180 - m) \div 10) + 1]
       ELSE IF m <= 270 THEN -SinTable[((m - 180) \div 10) + 1]
       ELSE -SinTable[((360 - m) \div 10) + 1]

Cos(a) == Sin(a + 90)

GridAngles == {10 * k : k \in -17..18}

(* the direction onto which the projection is largest: the scan of the    *)
(* directions from..180, best being the largest of those before from       *)
RECURSIVE LargestFrom(_, _, _)
LargestFrom(projection, from, best) ==
    IF from > 180 THEN best
    ELSE IF projection[from] > projection[best]
         THEN LargestFrom(projection, from + 10, from)
         ELSE LargestFrom(projection, from + 10, best)

Largest(projection) == LargestFrom(projection, -160, -170)

(* atan2(y, x) in degrees, in (-180, 180]: the grid direction closest to   *)
(* the direction of (x, y), i.e. the one with the largest projection;      *)
(* atan2(0, 0) = 0; atan2(0, x) = 180 for x < 0.                           *)
Atan2(y, x) ==
    IF x = 0 /\ y = 0 THEN 0
    ELSE Largest([a \in GridAngles |-> x * Cos(a) + y * Sin(a)])

(* degrees/90.*pi: the angle handed to sin and cos, in degrees of arc *)
ToRadians(deg) == 2 * deg

(* angle/pi*90: the angle of arc a (in degrees) converted back *)
FromRadians(a) == a \div 2

----------------------------------------------------------------------------
(* src/geotag.py *)

None == 0

Finite(n) == [inf |-> FALSE, v |-> n]
Infinity == [inf |-> TRUE, v |-> 0]

(* n < c for an integer n and a threshold value c that may be float("inf") *)
LessThan(n, c) == c.inf \/ n < c.v

Trackpoint(t, la, lo, el) == [time |-> t, lat |-> la, lon |-> lo, ele |-> el]

NoResult == [kind |-> "unset", time |-> 0, lat |-> 0, lon |-> 0, ele |-> <<0, 1>>]

(* interpolate_n with the weights proportional to the distances *)
interpolate_n_Direct(deltas, values) ==
    LET zero == [i \in {0, 1} |-> IF deltas[i] = 0 THEN 1 ELSE 0]
        weights == IF zero[0] + zero[1] = 0
                   THEN [i \in {0, 1} |-> Rat(deltas[i], 1)]
                   ELSE [i \in {0, 1} |-> Rat(zero[i], 1)]
        total == RAdd(RMul(Rat(values[0], 1), weights[0]),
                      RMul(Rat(values[1], 1), weights[1]))
    IN RDiv(total, RAdd(weights[0], weights[1]))

interpolate_n(deltas, values) ==
    LET zero == [i \in {0, 1} |-> IF deltas[i] = 0 THEN 1 ELSE 0]
        weights == IF zero[0] + zero[1] = 0
                   THEN [i \in {0, 1} |-> Rat(1, deltas[i])]
                   ELSE [i \in {0, 1} |-> Rat(zero[i], 1)]
        total == RAdd(RMul(Rat(values[0], 1), weights[0]),
                      RMul(Rat(values[1], 1), weights[1]))
    IN RDiv(total, RAdd(weights[0], weights[1]))

(* lines 100-101: an empty slot takes the other slot's point *)
FillMissing(cp) ==
    LET c0 == IF cp[0] = None THEN cp[1] ELSE cp[0]
        c1 == IF cp[1] = None THEN c0 ELSE cp[1]
    IN [i \in {0, 1} |-> IF i = 0 THEN c0 ELSE c1]

(* Collapse with the comparisons strict: a tie goes to the point after *)
Collapse_TieAfter(cp, l, t) ==
    LET d(p) == Abs(l[p].time - t)
        a1 == IF d(cp[0]) < d(cp[1]) THEN cp[0] ELSE cp[1]
        a0 == IF d(a1) <= d(cp[0]) THEN a1 ELSE cp[0]
    IN [i \in {0, 1} |-> IF i = 0 THEN a0 ELSE a1]

(* lines 106-108: both slots take the point that is nearer in time *)
Collapse(cp, l, t) ==
    LET d(p) == Abs(l[p].time - t)
        a1 == IF d(cp[0]) <= d(cp[1]) THEN cp[0] ELSE cp[1]
        a0 == IF d(a1) <= d(cp[0]) THEN a1 ELSE cp[0]
    IN [i \in {0, 1} |-> IF i = 0 THEN a0 ELSE a1]

(* lines 111-113: the normal vector of a point *)
NVector(point) ==
    <<RoundDiv(Cos(ToRadians(point.lat)) * Cos(ToRadians(point.lon)), Scale),
      RoundDiv(Cos(ToRadians(point.lat)) * Sin(ToRadians(point.lon)), Scale),
      Sin(ToRadians(point.lat))>>

Fix(r) == RoundDiv(r[1], r[2])

(* lines 122-128: the unit normal converted back to a trackpoint *)
ToTrackpoint(unit, elevation, t) ==
    [kind |-> "point", time |-> t,
     lat |-> FromRadians(Atan2(unit[3], Sqrt(unit[1] * unit[1] + unit[2] * unit[2]))),
     lon |-> FromRadians(Atan2(unit[2], unit[1])),
     ele |-> elevation]

(* line 118: every component divided by the sum of the squares *)
Normalize(normal, norm, elevation, t) ==
    IF norm = 0
    THEN [kind |-> "ZeroDivisionError", time |-> 0, lat |-> 0, lon |-> 0, ele |-> <<0, 1>>]
    ELSE ToTrackpoint([k \in 1..3 |-> RoundDiv(normal[k] * Scale, norm)], elevation, t)

SumOfSquares(normal) ==
    RoundDiv(normal[1] * normal[1] + normal[2] * normal[2] + normal[3] * normal[3], Scale)

(* lines 114-120: the normal vectors and the elevations interpolated *)
Interpolate(normals, elevations, deltas, t) ==
    LET normal == <<Fix(interpolate_n(deltas, [i \in {0, 1} |-> normals[i][1]])),
                    Fix(interpolate_n(deltas, [i \in {0, 1} |-> normals[i][2]])),
                    Fix(interpolate_n(deltas, [i \in {0, 1} |-> normals[i][3]]))>>
    IN Normalize(normal, SumOfSquares(normal), interpolate_n(deltas, elevations), t)

(* lines 110-128, for the two closest points p0, p1 *)
Blend(p0, p1, t) ==
    Interpolate([i \in {0, 1} |-> NVector(IF i = 0 THEN p0 ELSE p1)],
                [i \in {0, 1} |-> (IF i = 0 THEN p0 ELSE p1).ele],
                [i \in {0, 1} |-> Abs(t - (IF i = 0 THEN p0 ELSE p1).time)],
                t)

(* main, lines 150-155 and 201: the threshold option and the call *)
Main ==
    /\ pc = "main"
    /\ threshold' = IF optThreshold = -1 THEN Infinity ELSE Finite(optThreshold)
    /\ closestPoints' = [i \in {0, 1} |-> None]
    /\ closestTimes' = [i \in {0, 1} |-> threshold']
    /\ idx' = 1
    /\ pc' = "scan"
    /\ UNCHANGED <<list, time, interpolate, optThreshold, ret, fmtVars, dmsVars>>

(* lines 92-98: one iteration of the loop over the trackpoints *)
Scan ==
    /\ pc = "scan"
    /\ idx <= Len(list)
    /\ LET delta == list[idx].time - time
           after == IF delta >= 0 THEN 1 ELSE 0
       IN IF LessThan(Abs(delta), closestTimes[after])
          THEN /\ closestTimes' = [closestTimes EXCEPT ![after] = Finite(Abs(delta))]
               /\ closestPoints' = [closestPoints EXCEPT ![after] = idx]
          ELSE UNCHANGED <<closestTimes, closestPoints>>
    /\ idx' = idx + 1
    /\ UNCHANGED <<pc, list, time, interpolate, optThreshold, threshold, ret,
                   fmtVars, dmsVars>>

(* lines 100-108: fill the empty slot, reduce the nearest-neighbour case *)
Resolve ==
    /\ pc = "scan"
    /\ idx > Len(list)
    /\ LET filled == FillMissing(closestPoints)
       IN IF interpolate
          THEN /\ closestPoints' = filled
               /\ pc' = "compute"
               /\ ret' = ret
          ELSE IF filled[0] = None
               THEN /\ closestPoints' = filled
                    /\ pc' = "raised"
                    /\ ret' = [NoResult EXCEPT !.kind = "AttributeError"]
               ELSE /\ closestPoints' = Collapse(filled, list, time)
                    /\ pc' = "compute"
                    /\ ret' = ret
    /\ UNCHANGED <<list, time, interpolate, optThreshold, threshold, idx,
                   closestTimes, fmtVars, dmsVars>>

(* lines 110-128: interpolate position and elevation, return *)
Compute ==
    /\ pc = "compute"
    /\ IF closestPoints[0] = None
       THEN /\ pc' = "raised"
            /\ ret' = [NoResult EXCEPT !.kind = "AttributeError"]
       ELSE LET r == Blend(list[closestPoints[0]], list[closestPoints[1]], time)
            IN /\ ret' = r
               /\ pc' = IF r.kind = "point" THEN "returned" ELSE "raised"
    /\ UNCHANGED <<list, time, interpolate, optThreshold, threshold, idx,
                   closestPoints, closestTimes, fmtVars, dmsVars>>

----------------------------------------------------------------------------
(* The matcher on every bounded series *)

Times == 0..MaxTime

RECURSIVE SortedLists(_)
SortedLists(n) ==
    IF n = 0 THEN {<<>>}
    ELSE LET shorter == SortedLists(n - 1)
         IN shorter \cup
            { Append(l, Trackpoint(t, s.lat, s.lon, s.ele)) :
                l \in {m \in shorter : Len(m) = n - 1}, t \in Times, s \in Samples }

IsSorted(l) == \A i \in 1..(Len(l) - 1) : l[i].time <= l[i + 1].time

Init ==
    /\ pc = "main"
    /\ list \in {l \in SortedLists(MaxLen) : IsSorted(l)}
    /\ time \in Times
    /\ interpolate \in BOOLEAN
    /\ optThreshold \in -1..MaxThreshold
    /\ threshold = Finite(0)
    /\ idx = 0
    /\ closestPoints = [i \in {0, 1} |-> None]
    /\ closestTimes = [i \in {0, 1} |-> Finite(0)]
    /\ ret = NoResult
    /\ number = 0
    /\ formatted = <<>>
    /\ degrees = <<0, 1>>
    /\ dms = <<>>
    /\ dec = <<0, 1>>

Next == Main \/ Scan \/ Resolve \/ Compute

Spec == Init /\ [][Next]_vars

----------------------------------------------------------------------------
(* src/gpsfuncs.py: formatAsRational.  A string is a sequence of           *)
(* characters; number counts units of 10^-7.                               *)

DigitChar(d) == <<"0", "1", "2", "3", "4", "5", "6", "7", "8", "9">>[d + 1]

(* '%d' % n for n >= 0 *)
RECURSIVE FormatInt(_)
FormatInt(n) == IF n < 10 THEN <<DigitChar(n)>>
                ELSE Append(FormatInt(n \div 10), DigitChar(n % 10))

(* the last width decimal digits of n, zero-padded *)
RECURSIVE FormatFixed(_, _)
FormatFixed(n, width) ==
    IF width = 0 THEN <<>>
    ELSE Append(FormatFixed(n \div 10, width - 1), DigitChar(n % 10))

(* '%f' % number: six decimals, rounded to nearest *)
FormatFloat(n) ==
    LET micro == RoundDiv(n, 10)
    IN FormatInt(micro \div 1000000) \o <<".">> \o FormatFixed(micro % 1000000, 6)

RECURSIVE rstrip(_, _)
rstrip(str, c) ==
    IF str # <<>> /\ str[Len(str)] = c THEN rstrip(SubSeq(str, 1, Len(str) - 1), c)
    ELSE str

RECURSIVE lstrip(_, _)
lstrip(str, c) ==
    IF str # <<>> /\ str[1] = c THEN lstrip(Tail(str), c) ELSE str

(* str.split('.') for a string with exactly one '.' *)
split(str) ==
    LET dot == CHOOSE i \in 1..Len(str) : str[i] = "."
    IN <<SubSeq(str, 1, dot - 1), SubSeq(str, dot + 1, Len(str))>>

formatAsRational(n) ==
    IF n = 0 THEN <<"0", "/", "1">>
    ELSE LET stringrep == FormatFloat(n)
             parts == split(rstrip(stringrep, "0"))
             int_portion == parts[1]
             frac_portion == parts[2]
         IN lstrip(int_portion, "0") \o frac_portion \o <<"/">>
                \o FormatInt(Pow(10, Len(frac_portion)))

FormatAsRational ==
    /\ pc = "format"
    /\ formatted' = formatAsRational(number)
    /\ pc' = "formatted"
    /\ UNCHANGED <<number, matchVars, dmsVars>>

(* the seventh decimal is never 5: a decimal tie does not survive the      *)
(* conversion of the number to binary floating point                       *)
Fractions ==
    {0, 1, 4, 6, 10, 500, 4630000, 5000000, 500000, 123456, 1234567,
     9999994, 9999996, 1000000, 30, 99}

InitFmt ==
    /\ pc = "format"
    /\ number \in {i * 10000000 + f : i \in 0..MaxInt, f \in Fractions}
    /\ formatted = <<>>
    /\ list = <<>>
    /\ time = 0
    /\ interpolate = FALSE
    /\ optThreshold = 0
    /\ threshold = Finite(0)
    /\ idx = 0
    /\ closestPoints = [i \in {0, 1} |-> None]
    /\ closestTimes = [i \in {0, 1} |-> Finite(0)]
    /\ ret = NoResult
    /\ degrees = <<0, 1>>
    /\ dms = <<>>
    /\ dec = <<0, 1>>

NextFmt == FormatAsRational

SpecFmt == InitFmt /\ [][NextFmt]_vars

----------------------------------------------------------------------------
(* src/gpsfuncs.py: decToDMS and dmsToDec.  A float is a rational whose    *)
(* numerator has at most MantBits significant bits and whose denominator   *)
(* is a power of two; every operation rounds its exact result to nearest,  *)
(* ties to even.                                                           *)

(* n/d rounded to the nearest integer, ties to even *)
RoundHalfEven(n, d) ==
    LET q == n \div d
        r == n - q * d
    IN IF 2 * r < d THEN q
       ELSE IF 2 * r > d THEN q + 1
       ELSE IF q % 2 = 0 THEN q ELSE q + 1

(* n/d in lowest terms, for d a power of two *)
RECURSIVE Dyadic(_, _)
Dyadic(n, d) == IF d > 1 /\ n % 2 = 0 THEN Dyadic(n \div 2, d \div 2) ELSE <<n, d>>

(* n/d * 2^e rounded to MantBits significant bits, n > 0 *)
RECURSIVE RoundScaled(_, _, _)
RoundScaled(n, d, e) ==
    IF n >= d * Pow(2, MantBits) THEN RoundScaled(n, 2 * d, e + 1)
    ELSE IF n < d * Pow(2, MantBits - 1) THEN RoundScaled(2 * n, d, e - 1)
    ELSE LET m == RoundHalfEven(n, d)
         IN IF e >= 0 THEN <<m * Pow(2, e), 1>> ELSE Dyadic(m, Pow(2, -e))

(* the float nearest to the rational r *)
Float(r) ==
    IF r[1] = 0 THEN <<0, 1>>
    ELSE IF r[1] > 0 THEN RoundScaled(r[1], r[2], 0)
    ELSE LET f == RoundScaled(-r[1], r[2], 0) IN <<-f[1], f[2]>>

FAdd(a, b) == Float(RAdd(a, b))
FSub(a, b) == Float(RAdd(a, <<-b[1], b[2]>>))
FMul(a, b) == Float(RMul(a, b))
FDiv(a, b) == Float(RDiv(a, b))

(* int() rounding to the nearest integer instead of truncating *)
int_Rounding(r) == (2 * r[1] + r[2]) \div (2 * r[2])

(* int(): truncation towards zero *)
int(r) == IF r[1] >= 0 THEN r[1] \div r[2] ELSE -((-r[1]) \div r[2])

decToDMS(x) ==
    LET deg == int(x)
        work == FMul(FSub(x, Rat(deg, 1)), Rat(60, 1))
        min == int(work)
        sec == FMul(FSub(work, Rat(min, 1)), Rat(60, 1))
    IN <<deg, min, sec>>

dmsToDec(deg, min, sec) ==
    FAdd(Rat(deg, 1), FDiv(FAdd(Rat(min * 60, 1), sec), Rat(3600, 1)))

DecToDMS ==
    /\ pc = "decToDMS"
    /\ dms' = decToDMS(degrees)
    /\ pc' = "dmsToDec"
    /\ UNCHANGED <<degrees, dec, matchVars, fmtVars>>

DmsToDec ==
    /\ pc = "dmsToDec"
    /\ dec' = dmsToDec(dms[1], dms[2], dms[3])
    /\ pc' = "converted"
    /\ UNCHANGED <<degrees, dms, matchVars, fmtVars>>

(* the floats m * 2^(e - MantBits): every float in [2^-(FracExp+1), 2^MaxExp) *)
Floats ==
    { Float(RMul(Rat(m, Pow(2, MantBits)), IF e >= 0 THEN Rat(Pow(2, e), 1) ELSE Rat(1, Pow(2, -e)))) :
        m \in Pow(2, MantBits - 1)..(Pow(2, MantBits) - 1), e \in (-FracExp)..MaxExp }
    \cup {<<0, 1>>}

InitDMS ==
    /\ pc = "decToDMS"
    /\ degrees \in Floats
    /\ dms = <<>>
    /\ dec = <<0, 1>>
    /\ number = 0
    /\ formatted = <<>>
    /\ list = <<>>
    /\ time = 0
    /\ interpolate = FALSE
    /\ optThreshold = 0
    /\ threshold = Finite(0)
    /\ idx = 0
    /\ closestPoints = [i \in {0, 1} |-> None]
    /\ closestTimes = [i \in {0, 1} |-> Finite(0)]
    /\ ret = NoResult

NextDMS == DecToDMS \/ DmsToDec

SpecDMS == InitDMS /\ [][NextDMS]_vars

----------------------------------------------------------------------------
(* Vocabulary of the properties of formatAsRational *)

Digits == {"0", "1", "2", "3", "4", "5", "6", "7", "8", "9"}

DigitValue(c) == CHOOSE d \in 0..9 : DigitChar(d) = c

RECURSIVE ParseInt(_)
ParseInt(str) ==
    IF str = <<>> THEN 0
    ELSE 10 * ParseInt(SubSeq(str, 1, Len(str) - 1)) + DigitValue(str[Len(str)])

(* str is "1" followed by k zeros *)
IsPowerOfTen(str, k) ==
    /\ Len(str) = k + 1
    /\ str[1] = "1"
    /\ \A i \in 2..Len(str) : str[i] = "0"

(* C6: for every non-negative number formatAsRational returns a non-empty  *)
(* digit string, a slash and a power of ten; the digits are those of the   *)
(* six-decimal rendering with trailing zeros trimmed and the quotient is   *)
(* that rendering's value; zero gives "0/1".                               *)
C6_RationalForm ==
    pc = "formatted" =>
        IF number = 0 THEN formatted = <<"0", "/", "1">>
        ELSE \E slash \in 1..Len(formatted) :
                LET digits == SubSeq(formatted, 1, slash - 1)
                    power == SubSeq(formatted, slash + 1, Len(formatted))
                    k == Len(power) - 1
                IN /\ formatted[slash] = "/"
                   /\ digits # <<>>
                   /\ \A i \in 1..Len(digits) : digits[i] \in Digits
                   /\ k \in 0..6
                   /\ IsPowerOfTen(power, k)
                   /\ k > 0 => digits[Len(digits)] # "0"
                   /\ ParseInt(digits) * Pow(10, 6 - k) = RoundDiv(number, 10)

----------------------------------------------------------------------------
(* Vocabulary of the properties of decToDMS and dmsToDec *)

RSub(a, b) == RAdd(a, <<-b[1], b[2]>>)
RAbs(a) == <<Abs(a[1]), a[2]>>

(* the whole degrees are the truncation of x, the whole minutes the        *)
(* truncation of the float (x - deg) * 60, the seconds lie in [0, 60)      *)
Truncated ==
    /\ dms[1] = degrees[1] \div degrees[2]
    /\ LET work == Float(RMul(RSub(degrees, Rat(dms[1], 1)), Rat(60, 1)))
       IN dms[2] = work[1] \div work[2]
    /\ dms[2] \in 0..59
    /\ RLe(Rat(0, 1), dms[3]) /\ ~RLe(Rat(60, 1), dms[3])

(* decToDMS(10.5) = (10, 30, 0.0) *)
TenAndAHalf == degrees = <<21, 2>> => (dms = <<10, 30, <<0, 1>>>> /\ dec = <<21, 2>>)

(* C7 as stated: decToDMS truncates to whole degrees and minutes, and      *)
(* dmsToDec of the triple decToDMS(x) is x exactly.                        *)
C7_RoundTripExact ==
    pc = "converted" => (Truncated /\ TenAndAHalf /\ REq(dec, degrees))

(* C7 as amended: decToDMS truncates to whole degrees and minutes, and     *)
(* dmsToDec of the triple decToDMS(x) differs from x by no more than the   *)
(* rounding of the floating-point operations: |result - x| <= (x + 4)/2^p *)
(* for floats of p significant bits.                                       *)
C7_RoundTripWithinRounding ==
    pc = "converted" =>
        /\ Truncated
        /\ TenAndAHalf
        /\ RLe(RAbs(RSub(dec, degrees)),
               RMul(RAdd(degrees, Rat(4, 1)), Rat(1, Pow(2, MantBits))))

C7_Witness ==
    /\ pc = "converted"
    /\ dms[1] > 0 /\ dms[2] > 0
    /\ ~REq(dec, degrees)

----------------------------------------------------------------------------
(* Vocabulary of the properties of findNearestTrackpoint *)

Terminated == pc \in {"returned", "raised"}
Returned == pc = "returned" /\ ret.kind = "point"

Indices == 1..Len(list)
Dist(i) == Abs(list[i].time - time)
Before == {i \in Indices : list[i].time < time}
AtOrAfter == {i \in Indices : list[i].time >= time}

(* the trackpoints of S at most threshold seconds from the query time *)
Within(S) == {i \in S : threshold.inf \/ Dist(i) <= threshold.v}

(* the trackpoints of S less than threshold seconds from the query time *)
Inside(S) == {i \in S : threshold.inf \/ Dist(i) < threshold.v}

(* the trackpoints of S that are nearest to the query time *)
Nearest(S) == {i \in S : \A j \in S : Dist(i) <= Dist(j)}

SamePosition(i) == ret.lat = list[i].lat /\ ret.lon = list[i].lon
SameElevation(i) == REq(ret.ele, Rat(list[i].ele, 1))

----------------------------------------------------------------------------
(* C1: when no trackpoint lies within threshold seconds of the query time  *)
(* (the empty series included), findNearestTrackpoint terminates normally  *)
(* and returns None; it never raises.                                      *)
C1_NoMatchReturnsNone ==
    (Terminated /\ Within(Indices) = {})
        => (pc = "returned" /\ ret.kind = "none")

(* C2: the threshold is inclusive: when the nearest trackpoint is exactly  *)
(* threshold seconds from the query time, a match is returned.             *)
C2_ThresholdInclusive ==
    (Terminated /\ ~threshold.inf
        /\ \E i \in Indices : Dist(i) = threshold.v
        /\ \A j \in Indices : Dist(j) >= threshold.v)
        => Returned

(* In C3, C4, C5, C8, C9 and C10 a trackpoint counts as within threshold   *)
(* when findNearestTrackpoint accepts it (line 96); whether a distance of  *)
(* exactly threshold counts is the subject of C2 alone.                    *)

(* C3: with interpolate=True and a query time equal to the timestamp of a  *)
(* trackpoint, the result has the latitude, longitude and elevation of a   *)
(* trackpoint with that timestamp, unchanged.                              *)
C3_ExactHitUnchanged ==
    (Terminated /\ interpolate
        /\ \E i \in Inside(Indices) : list[i].time = time)
        => (Returned /\ \E i \in Indices :
                list[i].time = time /\ SamePosition(i) /\ SameElevation(i))

(* C4: with interpolate=False every returned result has the latitude,      *)
(* longitude and elevation of one of the trackpoints of the series.  (The  *)
(* timestamp, which line 127 sets to the query time, is left aside: the    *)
(* position decides the claim.)                                            *)
C4_NearestIsExistingSample ==
    (Returned /\ ~interpolate)
        => \E i \in Indices : SamePosition(i) /\ SameElevation(i)

(* C5: with interpolate=True, for two consecutive trackpoints on the       *)
(* equator, both within threshold, a query at the temporal midpoint        *)
(* between them returns latitude 0 and the midpoint of their longitudes.   *)
C5_EquatorMidpoint ==
    \A i \in 1..(Len(list) - 1) :
        (Terminated /\ interpolate
            /\ list[i].lat = 0 /\ list[i + 1].lat = 0
            /\ list[i].time < list[i + 1].time
            /\ 2 * time = list[i].time + list[i + 1].time
            /\ {i, i + 1} \subseteq Inside(Indices))
        => (Returned /\ ret.lat = 0 /\ 2 * ret.lon = list[i].lon + list[i + 1].lon)

C10_OneSidedFallback ==
    LET b == Inside(Before)
        a == Inside(AtOrAfter)
    IN (Terminated /\ ((b = {}) # (a = {})))
        => (Returned /\ \E i \in Nearest(b \cup a) : SamePosition(i) /\ SameElevation(i))

====
